---- MODULE Spec2Model ----
(***************************************************************************)
(* Model of the MCP gateway of Maverick-MCP: the HTTP gateway              *)
(* (mcp-gateway/gateway.py, MCPGateway + DockerBridge) and the STDIO       *)
(* gateway (mcp-stdio-gateway.py, STDIOMCPGateway + DockerBridge).         *)
(*                                                                         *)
(* Scheduling.  Every gateway tool is an `async def` registered with       *)
(* FastMCP and its body contains no `await`: once the event loop starts a  *)
(* handler it runs it to its return or raise, blocking inside              *)
(* Popen/readline/wait.  A handler therefore occupies the event loop from  *)
(* its first statement to its last; the model splits execute_tool only at  *)
(* its blocking readline() calls, where the subprocess and the clock (the  *)
(* environment) may move but no other handler may.                         *)
(***************************************************************************)
EXTENDS Integers, Sequences, FiniteSets, TLC

\* ------------------------------------------------------------------ bounds
MaxCalls == 2
MaxClockSteps == 2
MaxCandidates == 2
MaxWarnings == 3
MaxCases == 2

\* ------------------------------------------------------- program constants
DefaultIdleTimeout == 300
HttpCounterStart == 1000
StdioCounterStart == 0
InitRequestId == 1
InternalErrorCode == -32603
ListDefaultIdleTimeout == 300

\* Risk scores are counted in tenths: 3.0 and 1.5 per warning, capped at
\* 10.0; a candidate is high-risk from 5.0 on.
HighRiskWeight == 30
MediumRiskWeight == 15
RiskScoreCap == 100
HighRiskScore == 50
\* show_risk_summary: safe below 2.0, medium below 5.0, high otherwise.
DisplaySafeBelow == 20
DisplayMediumBelow == 50
\* get_security_summary: high above 5.0, medium above 2.0, safe otherwise.
SummaryHighAbove == 50
SummaryMediumAbove == 20

\* ------------------------------------------------------------ environment
Callers == {"c1", "c2"}
Variants == {"http", "stdio"}

\* servers.yaml as loaded by _load_registry: "a" configures idle_timeout,
\* "b" does not.
Registry == {"a", "b"}
ConfiguredIdleTimeout == [s \in {"a"} |-> 100]
ServerIds == Registry \cup {"zz"}

\* The "tools" of the registry: "a" configures two tools, "b" has no "tools"
\* member.  RegistryOrder is the order of the servers in the file.
ConfiguredTools == [s \in {"a"} |-> <<"t1", "t2">>]
RegistryOrder == <<"a", "b">>

\* What a caller may pass as `arguments`.
ArgKinds == {"none", "dict", "str_obj", "str_list", "str_bad", "int"}

\* The calls the callers make: execute_tool on "a" with every kind of
\* arguments, on "b" and on the unregistered "zz" with a dict,
\* stop_server on every identifier, and the two listings.
Op(o, sid, a) == [op |-> o, server_id |-> sid, arguments |-> a]
Requests ==
    {Op("execute_tool", "a", a) : a \in ArgKinds}
        \cup {Op("execute_tool", sid, "dict") : sid \in {"b", "zz"}}
        \cup {Op("stop_server", sid, "") : sid \in ServerIds}
        \cup {Op("list_active_servers", "", ""), Op("list_available_tools", "", "")}

NoError == [code |-> 0, message |-> ""]
UnknownTool == [code |-> -32601, message |-> "unknown tool"]

\* One line read from a subprocess's stdout.  The gateway never reads the
\* "id" member of a response, so a line records only whether its id is the
\* id of the request it answers (own).
Line(k, o, r, e) == [kind |-> k, own |-> o, result |-> r, error |-> e]
Eof == Line("", FALSE, "", NoError)
NotJson == Line("notjson", FALSE, "", NoError)
NoLine == Line("none", FALSE, "", NoError)

\* The lines a running subprocess may answer a request with: a result or
\* an error carrying the request's id, a result carrying another id, or a
\* line that is no JSON.
Replies ==
    {Line("result", TRUE, "P1", NoError), Line("result", FALSE, "P2", NoError),
     Line("error", TRUE, "", UnknownTool), NotJson}

VARIABLES
    variant,          \* which gateway program runs
    phase,            \* "constructed" | "serving" | "stopped" (main has ended)
    monitor,          \* idle_monitor_task: "none" | "detached" | "scheduled" |
                      \* "cancelled"
    active,           \* DockerBridge.active_processes: server_id -> pid, 0 = absent
    procs,            \* every ServerProcess/Popen ever created, by pid
    wire,             \* per pid: the frames written to stdin / read from stdout
    request_counter,  \* MCPGateway._request_counter
    now,              \* time.time()
    clockSteps,
    calls,            \* number of execute_tool calls issued so far
    pc, req, held, reqid,   \* per caller: position and locals of its handler
    last,             \* the call that ended last: the line its last readline()
                      \* returned, what the call returned or raised and, for
                      \* a listing, the list it returned
    \* approval_flow.py, one call of integrate_approval_step:
    candidates,       \* its argument `candidates`
    interactive,      \* its argument `interactive`
    apc,              \* position: "off" | "call" | "decide" | "confirm" | "done"
    decision,         \* what request_approval returned
    confirmed,        \* the last answer of confirm_high_risk_approval
    prompted,         \* input() was called
    summaries,        \* number of calls of show_approval_summary
    returned,         \* what integrate_approval_step returned
    answer,           \* the last line input() gave get_approval_decision
    risk_summary,     \* the counts show_risk_summary printed
    \* mcp_test_framework.py, one MCPServerTester:
    tester_pc,        \* position: "off" | "call" | "wait" | "done"
    tester_process,   \* self.process: "none" | "alive" | "dead"
    tester_counter,   \* self.request_counter
    tester_wire,      \* the frames written to / lines read from the server
    tester_response,  \* what send_request returned
    tester_result,    \* what initialize_server returned
    \* mcp_test_framework.py, one call of TestRunner.run_test_suite:
    suite_pc,         \* "off" | "start" | "setup" | "case" | "case_wait" |
                      \* "teardown" | "done"
    suite_results,    \* the TestExecutions collected so far
    cases_left        \* test cases of the suite not yet run

gatewayVars == <<variant, phase, monitor, active, procs, wire, request_counter,
                 now, clockSteps, calls, pc, req, held, reqid, last>>

approvalVars == <<candidates, interactive, apc, decision, confirmed, prompted,
                  summaries, returned, answer, risk_summary>>

suiteVars == <<suite_pc, suite_results, cases_left>>

testerVars == <<tester_pc, tester_process, tester_counter, tester_wire,
                tester_response, tester_result, suiteVars>>

vars == <<gatewayVars, approvalVars, testerVars>>

envVars == <<variant, phase, monitor>>
poolVars == <<active, procs, wire>>
callerVars == <<pc, req, held, reqid, last>>

\* ------------------------------------------------------------- helpers
Pids == 1..Len(procs)
NoReq == Op("", "", "")
NoDecision == [pending |-> TRUE]
NoInput == "(nothing read)"
NoSummary == [shown |-> FALSE]
NoResponse == [type |-> "none"]
NoTesterResult == [pending |-> TRUE]
NoReturn == <<>>
NoResult == [status |-> "none", type |-> "", text |-> "", value |-> "", error |-> NoError]
Ended(r, line, res) ==
    [op |-> r.op, server_id |-> r.server_id, read |-> line, outcome |-> res,
     listing |-> <<>>]
Return(v) == [status |-> "return", type |-> "", text |-> "", value |-> v, error |-> NoError]
Raise(t, msg, e) == [status |-> "raise", type |-> t, text |-> msg, value |-> "", error |-> e]

WriteEv(m, i, a) == [dir |-> "w", what |-> m, id |-> i, args |-> a]
ReadEv == [dir |-> "r", what |-> "", id |-> 0, args |-> ""]

IdleTimeout(sid) ==
    IF sid \in DOMAIN ConfiguredIdleTimeout THEN ConfiguredIdleTimeout[sid]
    ELSE DefaultIdleTimeout

\* Mutant of LoopFree: the loop runs other coroutines while a handler waits
\* in readline().
LoopFreeAlways == TRUE

\* The event loop is free: no execute_tool handler is blocked in readline().
LoopFree == \A c \in Callers : pc[c] \notin {"init_read", "call_read"}

Writable(p) == p.state = "running"
\* Mutant of TouchLastUsed: last_used is left as it is.
TouchLastUsedNot(P, pid) == P

TouchLastUsed(P, pid) == [P EXCEPT ![pid].last_used = now]
Log(W, pid, ev) == [W EXCEPT ![pid] = Append(@, ev)]

\* ------------------------------------------------- pure parts of the code
\* Mutant of Validate: the `elif not isinstance(arguments, dict)` branch is
\* missing.
ValidateNoTypeTest(r) ==
    IF r.server_id \notin Registry
    THEN Raise("ValueError", "Server not found in registry", NoError)
    ELSE IF r.arguments = "str_bad"
    THEN Raise("ValueError", "Invalid JSON in arguments", NoError)
    ELSE NoResult

\* execute_tool, the registry lookup and the handling of `arguments`:
\* the exception raised before any bridge call, or NoResult.
Validate(r) ==
    IF r.server_id \notin Registry
    THEN Raise("ValueError", "Server not found in registry", NoError)
    ELSE IF r.arguments = "str_bad"
    THEN Raise("ValueError", "Invalid JSON in arguments", NoError)
    ELSE IF r.arguments = "int"
    THEN Raise("ValueError", "Arguments must be dict or JSON string", NoError)
    ELSE NoResult

\* The value of params.arguments in the tools/call request: json.loads of a
\* string, then `arguments or {}`.
ForwardedArguments(a) ==
    CASE a = "none" -> "{}"
      [] a = "dict" -> "obj"
      [] a = "str_obj" -> "obj"
      [] a = "str_list" -> "list"
      [] OTHER -> "{}"

\* Mutant of Hit: the lookup never finds the entry.
HitNever(sid) == FALSE

\* get_or_spawn's test `server_id in self.active_processes`.
Hit(sid) == active[sid] # 0

\* Mutant of ToolOutcome: the test for an "error" member is missing.
ToolOutcomeNoErrorTest(response) == Return(response.result)

\* execute_tool's last lines: an "error" member raises, otherwise the
\* "result" member is returned ({} when there is none).
ToolOutcome(response) ==
    IF response.kind = "error"
    THEN Raise("Exception", "Tool execution error", response.error)
    ELSE Return(response.result)

\* gateway.py send_message after readline(): an empty line raises, anything
\* else goes through json.loads, which raises on a line that is no JSON.
HttpReadFailure(line) ==
    CASE line = Eof -> Raise("Exception", "No response from server", NoError)
      [] line.kind = "notjson" -> Raise("JSONDecodeError", "Expecting value", NoError)
      [] OTHER -> NoResult

\* Mutant of StdioResponse: the line read is handed on as it is.
StdioResponseAsRead(line) == line

\* mcp-stdio-gateway.py send_message: every failure becomes an error object
\* with code -32603, which the function returns instead of raising.
StdioResponse(line) ==
    CASE line = Eof ->
            Line("error", TRUE, "", [code |-> InternalErrorCode,
                                   message |-> "No response from container"])
      [] line.kind = "notjson" ->
            Line("error", TRUE, "", [code |-> InternalErrorCode,
                                   message |-> "Expecting value"])
      [] OTHER -> line

StdioWriteFailure ==
    Line("error", TRUE, "", [code |-> InternalErrorCode, message |-> "Broken pipe"])

\* How execute_tool ends once the readline() of its tools/call request has
\* returned `line`: gateway.py raises what send_message raises, the STDIO
\* gateway treats the error object send_message made up as a response.
ResponseOutcome(line) ==
    IF variant = "stdio" THEN ToolOutcome(StdioResponse(line))
    ELSE IF HttpReadFailure(line).status = "raise" THEN HttpReadFailure(line)
    ELSE ToolOutcome(line)

\* Mutant of NextRequestId: the counter is not incremented.
NextRequestIdNoIncrement == request_counter

\* execute_tool: `self._request_counter += 1`, the id of the request.
NextRequestId == request_counter + 1

\* Mutant of CanStart: handlers are started while another one is waiting
\* for a subprocess (as if readline() were awaited).
CanStartAnyTime(c) == TRUE

\* A handler may start only when the event loop is not inside another one.
CanStart(c) == LoopFree

\* What readline() on the stdout of `pid` can return: a line the process
\* wrote, or end of file once it has exited.
Available(pid) ==
    IF procs[pid].state = "running" THEN Replies ELSE {Eof}

\* No MCPServerTester exists.
TesterOff ==
    /\ tester_pc = "off"
    /\ tester_process = "none"
    /\ tester_counter = 0
    /\ tester_wire = <<>>
    /\ tester_response = NoResponse
    /\ tester_result = NoTesterResult
    /\ suite_pc = "off"
    /\ suite_results = <<>>
    /\ cases_left = 0

\* The approval flow has not been entered.
ApprovalOff ==
    /\ candidates = <<>>
    /\ interactive = FALSE
    /\ apc = "off"
    /\ decision = NoDecision
    /\ confirmed = "none"
    /\ prompted = FALSE
    /\ summaries = 0
    /\ returned = NoReturn
    /\ answer = NoInput
    /\ risk_summary = NoSummary

\* ---------------------------------------------------------------- actions
\* The gateway after construction.
GatewayInit ==
    /\ variant \in Variants
    /\ phase = "constructed"
    /\ monitor = "none"
    /\ active = [s \in Registry |-> 0]
    /\ procs = <<>>
    /\ wire = <<>>
    /\ request_counter = IF variant = "http" THEN HttpCounterStart ELSE StdioCounterStart
    /\ now = 0
    /\ clockSteps = 0
    /\ calls = 0
    /\ pc = [c \in Callers |-> "idle"]
    /\ req = [c \in Callers |-> NoReq]
    /\ held = [c \in Callers |-> 0]
    /\ reqid = [c \in Callers |-> 0]
    /\ last = Ended(NoReq, NoLine, NoResult)

Init ==
    /\ GatewayInit
    /\ ApprovalOff
    /\ TesterOff

\* MCPGateway.start / STDIOMCPGateway.start.  gateway.py creates the idle
\* monitor task on an event loop of its own making and then hands control to
\* FastMCP.run, which is not part of this repository: the task runs only if
\* the runner drives that very loop ("scheduled"); a runner that brings its
\* own loop (asyncio.run) leaves the task never started ("detached").
Start ==
    /\ phase = "constructed"
    /\ phase' = "serving"
    /\ IF variant = "http"
       THEN monitor' \in {"detached", "scheduled"}
       ELSE monitor' = "none"
    /\ UNCHANGED <<variant, poolVars, request_counter, now, clockSteps, calls,
                   callerVars>>
    /\ UNCHANGED <<approvalVars, testerVars>>

\* A caller invokes a tool of the gateway: the coroutine is created and
\* waits for the event loop.  The STDIO gateway registers no stop_server.
Call(c, r) ==
    /\ phase = "serving"
    /\ pc[c] = "idle"
    /\ calls < MaxCalls
    /\ r.op = "stop_server" => variant = "http"
    /\ calls' = calls + 1
    /\ pc' = [pc EXCEPT ![c] = "pending"]
    /\ req' = [req EXCEPT ![c] = r]
    /\ UNCHANGED <<envVars, poolVars, request_counter, now, clockSteps,
                   held, reqid, last>>
    /\ UNCHANGED <<approvalVars, testerVars>>

\* The handler of caller c ends with `res` (returned or raised); `line` is
\* what its last readline() returned (NoLine when it read nothing).
Finish(c, line, res) ==
    /\ pc' = [pc EXCEPT ![c] = "idle"]
    /\ last' = Ended(req[c], line, res)
    /\ req' = [req EXCEPT ![c] = NoReq]
    /\ reqid' = [reqid EXCEPT ![c] = 0]
    /\ held' = [held EXCEPT ![c] = 0]

\* execute_tool from "Create tool call request" to the readline() inside
\* send_message, for the ServerProcess `pid`, given the process table P and
\* the wire W as the earlier statements of the handler left them.
SendCall(c, pid, P, W, a) ==
    LET id == NextRequestId
        P1 == IF variant = "http" THEN TouchLastUsed(P, pid) ELSE P
    IN  /\ request_counter' = id
        /\ procs' = P1
        /\ IF Writable(P[pid])
           THEN /\ wire' = Log(W, pid, WriteEv("tools/call", id, a))
                /\ held' = [held EXCEPT ![c] = pid]
                /\ pc' = [pc EXCEPT ![c] = "call_read"]
                /\ reqid' = [reqid EXCEPT ![c] = id]
                /\ UNCHANGED <<req, last>>
           ELSE /\ wire' = W
                /\ Finish(c, NoLine, IF variant = "http"
                             THEN Raise("BrokenPipeError", "Broken pipe", NoError)
                             ELSE ToolOutcome(StdioWriteFailure))

\* spawn_container up to the insertion into active_processes: the new
\* ServerProcess appended to the process table.
Spawned(sid) ==
    Append(procs, [server_id |-> sid, started_at |-> now, last_used |-> now,
                   state |-> "running"])

\* execute_tool from its first statement to the first readline(): the
\* validation, get_or_spawn (with spawn_container and, in gateway.py, the
\* write of the initialize request) and, on a hit or in the STDIO gateway,
\* the write of the tools/call request.
ExecBegin(c) ==
    /\ phase = "serving"
    /\ pc[c] = "pending"
    /\ req[c].op = "execute_tool"
    /\ CanStart(c)
    /\ LET r == req[c]
           sid == r.server_id
           a == ForwardedArguments(r.arguments)
           v == Validate(r)
           pid == Len(procs) + 1
       IN  IF v.status = "raise"
           THEN /\ Finish(c, NoLine, v)
                /\ UNCHANGED <<poolVars, request_counter>>
           ELSE IF Hit(sid)
           THEN /\ SendCall(c, active[sid],
                            IF variant = "stdio"
                            THEN TouchLastUsed(procs, active[sid]) ELSE procs,
                            wire, a)
                /\ UNCHANGED active
           ELSE \E launched \in BOOLEAN :
                  IF ~launched
                  THEN /\ Finish(c, NoLine, Raise("OSError", "Popen failed", NoError))
                       /\ UNCHANGED <<poolVars, request_counter>>
                  ELSE /\ active' = [active EXCEPT ![sid] = pid]
                       /\ IF variant = "http"
                          THEN /\ procs' = Spawned(sid)
                               /\ wire' = Append(wire,
                                      <<WriteEv("initialize", InitRequestId, "")>>)
                               /\ pc' = [pc EXCEPT ![c] = "init_read"]
                               /\ held' = [held EXCEPT ![c] = pid]
                               /\ UNCHANGED <<request_counter, req, reqid, last>>
                          ELSE SendCall(c, pid, Spawned(sid), Append(wire, <<>>), a)
    /\ UNCHANGED <<envVars, now, clockSteps, calls>>
    /\ UNCHANGED <<approvalVars, testerVars>>

\* gateway.py, _initialize_connection from the return of readline() on,
\* when readline() returned `line`: the
\* response is decoded, the initialized notification is written,
\* spawn_container returns and execute_tool goes on to send its request.
InitReadOn(c, line) ==
    /\ pc[c] = "init_read"
    /\ line \in Available(held[c])
    /\ LET pid == held[c]
           P == procs
           W == Log(wire, pid, ReadEv)
           f == HttpReadFailure(line)
       IN  IF f.status = "raise"
           THEN /\ Finish(c, line, f)
                /\ procs' = P
                /\ wire' = W
                /\ UNCHANGED <<request_counter>>
           ELSE SendCall(c, pid, P,
                         Log(W, pid, WriteEv("notifications/initialized", 0, "")),
                         ForwardedArguments(req[c].arguments))
    /\ UNCHANGED <<envVars, active, now, clockSteps, calls>>
    /\ UNCHANGED <<approvalVars, testerVars>>

InitRead(c) == \E line \in Replies \cup {Eof} : InitReadOn(c, line)

\* Mutant of CallRead: a response carrying an error object closes the
\* session (the process is terminated and its entry removed).
CallReadClosingOnError(c) ==
    /\ pc[c] = "call_read"
    /\ \E line \in Available(held[c]) :
         LET pid == held[c]
             T == IF line.kind = "error" THEN {pid} ELSE {}
         IN  /\ procs' = [p \in DOMAIN procs |->
                            IF p \in T THEN [procs[p] EXCEPT !.state = "terminated"]
                            ELSE procs[p]]
             /\ active' = [s \in DOMAIN active |->
                             IF active[s] \in T THEN 0 ELSE active[s]]
             /\ wire' = Log(wire, pid, ReadEv)
             /\ Finish(c, line, ResponseOutcome(line))
    /\ UNCHANGED <<envVars, request_counter, now, clockSteps, calls>>
    /\ UNCHANGED <<approvalVars, testerVars>>

\* send_message from the return of readline() on, and the end of
\* execute_tool.
CallRead(c) ==
    /\ pc[c] = "call_read"
    /\ \E line \in Available(held[c]) :
         LET pid == held[c]
         IN  /\ procs' = procs
             /\ wire' = Log(wire, pid, ReadEv)
             /\ Finish(c, line, ResponseOutcome(line))
    /\ UNCHANGED <<envVars, active, request_counter, now, clockSteps,
                   calls>>
    /\ UNCHANGED <<approvalVars, testerVars>>

\* The subprocess exits on its own (observed while the gateway runs).
ProcExit(pid) ==
    /\ phase = "serving"
    /\ procs[pid].state = "running"
    /\ procs' = [procs EXCEPT ![pid].state = "exited"]
    /\ UNCHANGED <<envVars, active, wire, request_counter, now, clockSteps,
                   calls, callerVars>>
    /\ UNCHANGED <<approvalVars, testerVars>>

\* terminate_container: process.terminate(), then process.wait(timeout=5),
\* which returns when the process has exited and raises TimeoutExpired when
\* it has not; only after a wait that returned is the entry deleted.
WaitOutcomes(pid) ==
    IF procs[pid].state = "exited" THEN {"exited"} ELSE {"exited", "timeout"}

\* Mutant of Terminated: the entries are deleted without the processes
\* having been terminated.
TerminatedNone(P, T) == P

Terminated(P, T) ==
    [p \in DOMAIN P |-> IF p \in T THEN [P[p] EXCEPT !.state = "terminated"] ELSE P[p]]

Removed(A, T) == [s \in DOMAIN A |-> IF A[s] \in T THEN 0 ELSE A[s]]

\* stop_server (gateway.py only).
StopServer(c) ==
    /\ phase = "serving"
    /\ pc[c] = "pending"
    /\ req[c].op = "stop_server"
    /\ CanStart(c)
    /\ LET sid == req[c].server_id IN
       IF sid \in DOMAIN active /\ active[sid] # 0
       THEN \E o \in WaitOutcomes(active[sid]) :
              IF o = "exited"
              THEN /\ procs' = Terminated(procs, {active[sid]})
                   /\ active' = Removed(active, {active[sid]})
                   /\ Finish(c, NoLine, Return("stopped"))
              ELSE /\ Finish(c, NoLine, Raise("TimeoutExpired",
                                              "timed out after 5 seconds", NoError))
                   /\ UNCHANGED <<active, procs>>
       ELSE /\ Finish(c, NoLine, Return("not_running"))
            /\ UNCHANGED <<active, procs>>
    /\ UNCHANGED <<envVars, wire, request_counter, now, clockSteps, calls>>
    /\ UNCHANGED <<approvalVars, testerVars>>

\* Mutant of ListedIdleTimeout: an identifier without idle_timeout is listed
\* with 0.
ListedIdleTimeoutNoDefault(sid) ==
    IF sid \in DOMAIN ConfiguredIdleTimeout THEN ConfiguredIdleTimeout[sid] ELSE 0

\* list_active_servers: config.get("idle_timeout", 300).
ListedIdleTimeout(sid) ==
    IF sid \in DOMAIN ConfiguredIdleTimeout THEN ConfiguredIdleTimeout[sid]
    ELSE ListDefaultIdleTimeout

\* datetime.isoformat(): the text of a time.
IsoFormat(t) == <<"iso", t>>

\* The entries of active_processes.  A dictionary iterates in insertion
\* order, which for the entries present is the order of their pids.
ActivePids == {active[s] : s \in {t \in Registry : active[t] # 0}}

RankIn(S, pid) == Cardinality({q \in S : q < pid})

\* The record list_active_servers builds for one entry.
ActiveRecord(pid) ==
    [server_id |-> procs[pid].server_id,
     started_at |-> IsoFormat(procs[pid].started_at),
     last_used |-> IsoFormat(procs[pid].last_used),
     idle_timeout |-> ListedIdleTimeout(procs[pid].server_id)]

\* The list list_active_servers returns.
ActiveServers ==
    [k \in 1..Cardinality(ActivePids) |->
        ActiveRecord(CHOOSE p \in ActivePids : RankIn(ActivePids, p) = k - 1)]

\* Mutant of ToolsOf: the "tools" member is never read.
ToolsOfNone(sid) == <<>>

\* config.get("tools", []).
ToolsOf(sid) ==
    IF sid \in DOMAIN ConfiguredTools THEN ConfiguredTools[sid] ELSE <<>>

\* The descriptor list_available_tools builds for one tool (its
\* "description", "when_to_use" and "parameters" members, copied from the
\* registry, are left out).
Descriptor(sid, tool) == [server |-> sid, name |-> tool]

\* The list list_available_tools returns: the descriptors of the tools of
\* the servers from the k-th on, in the order of the registry.
RECURSIVE ToolsFrom(_)
ToolsFrom(k) ==
    IF k > Len(RegistryOrder) THEN <<>>
    ELSE [i \in 1..Len(ToolsOf(RegistryOrder[k])) |->
              Descriptor(RegistryOrder[k], ToolsOf(RegistryOrder[k])[i])]
         \o ToolsFrom(k + 1)

AvailableTools == ToolsFrom(1)

\* The handler of a listing: it runs from its first statement to its return
\* and changes nothing.
Listed(c, L) ==
    /\ pc' = [pc EXCEPT ![c] = "idle"]
    /\ last' = [Ended(req[c], NoLine, Return("list")) EXCEPT !.listing = L]
    /\ req' = [req EXCEPT ![c] = NoReq]
    /\ UNCHANGED <<envVars, poolVars, request_counter, now, clockSteps, calls,
                   held, reqid>>
    /\ UNCHANGED <<approvalVars, testerVars>>

ListActiveServers(c) ==
    /\ phase = "serving"
    /\ pc[c] = "pending"
    /\ req[c].op = "list_active_servers"
    /\ CanStart(c)
    /\ Listed(c, ActiveServers)

ListAvailableTools(c) ==
    /\ phase = "serving"
    /\ pc[c] = "pending"
    /\ req[c].op = "list_available_tools"
    /\ CanStart(c)
    /\ Listed(c, AvailableTools)

\* Mutant of IdlePids: an entry counts as idle as soon as its idle time
\* reaches the timeout.
IdlePidsAtTimeout ==
    {active[s] : s \in {t \in Registry :
        active[t] # 0 /\ now - procs[active[t]].last_used >= IdleTimeout(t)}}

\* idle_monitor: the entries found idle, in the order of the dictionary
\* (insertion order, which is the order of the pids).
IdlePids ==
    {active[s] : s \in {t \in Registry :
        active[t] # 0 /\ now - procs[active[t]].last_used > IdleTimeout(t)}}

Rank(pid) == Cardinality({q \in IdlePids : q < pid})

\* One pass of the loop of idle_monitor.  The entries are terminated one
\* after the other; a TimeoutExpired leaves the loop through the except
\* clause, so the first k are terminated and the rest are left as they are.
IdleTick ==
    /\ variant = "http"
    /\ phase = "serving"
    /\ monitor = "scheduled"
    /\ LoopFree
    /\ \E k \in 0..Cardinality(IdlePids) :
         LET T == {p \in IdlePids : Rank(p) < k}
             next == {p \in IdlePids : Rank(p) = k}
         IN  /\ \A p \in next : "timeout" \in WaitOutcomes(p)
             /\ procs' = Terminated(procs, T)
             /\ active' = Removed(active, T)
    /\ UNCHANGED <<envVars, wire, request_counter, now, clockSteps, calls,
                   callerVars>>
    /\ UNCHANGED <<approvalVars, testerVars>>

\* Time passes.  The gateway reads the clock only to stamp an entry and to
\* measure how long an entry has been idle, so the passing of time is
\* observed only while the pool holds an entry.
AdvanceClock ==
    /\ phase = "serving"
    /\ clockSteps < MaxClockSteps
    /\ \E s \in Registry : active[s] # 0
    /\ clockSteps' = clockSteps + 1
    /\ now' = now + DefaultIdleTimeout
    /\ UNCHANGED <<envVars, poolVars, request_counter, calls, callerVars>>
    /\ UNCHANGED <<approvalVars, testerVars>>

\* main(): start() returns or is interrupted between two handlers, and the
\* program ends.  gateway.py runs cleanup() in its finally clause: the
\* entries are terminated one after the other, a TimeoutExpired leaves
\* cleanup (and main) at once, and only a loop that came to its end is
\* followed by the cancellation of the idle monitor task.
\* mcp-stdio-gateway.py has no cleanup: main just returns.
Shutdown ==
    /\ phase = "serving"
    /\ LoopFree
    /\ phase' = "stopped"
    /\ IF variant = "http"
       THEN \E k \in 0..Cardinality(ActivePids) :
              LET T == {p \in ActivePids : RankIn(ActivePids, p) < k}
                  next == {p \in ActivePids : RankIn(ActivePids, p) = k}
              IN  /\ \A p \in next : "timeout" \in WaitOutcomes(p)
                  /\ procs' = Terminated(procs, T)
                  /\ active' = Removed(active, T)
                  /\ monitor' = IF next = {} THEN "cancelled" ELSE monitor
       ELSE UNCHANGED <<active, procs, monitor>>
    /\ UNCHANGED <<variant, wire, request_counter, now, clockSteps, calls,
                   callerVars>>
    /\ UNCHANGED <<approvalVars, testerVars>>

Next ==
    \/ Start
    \/ \E c \in Callers, r \in Requests : Call(c, r)
    \/ \E c \in Callers : ExecBegin(c)
    \/ \E c \in Callers : InitRead(c)
    \/ \E c \in Callers : CallRead(c)
    \/ \E pid \in Pids : ProcExit(pid)
    \/ \E c \in Callers : StopServer(c)
    \/ \E c \in Callers : ListActiveServers(c)
    \/ \E c \in Callers : ListAvailableTools(c)
    \/ IdleTick
    \/ AdvanceClock
    \/ Shutdown

Spec == Init /\ [][Next]_vars

\* Fairness: the event loop runs a coroutine that is ready, which covers the
\* pending handlers and the idle monitor when its task is on the loop that
\* is being run; and every subprocess answers or exits, so that no
\* readline() blocks for ever.
FairSpec ==
    /\ Spec
    /\ WF_vars(IdleTick)
    /\ \A c \in Callers :
         /\ WF_vars(ExecBegin(c))
         /\ WF_vars(StopServer(c))
         /\ WF_vars(ListActiveServers(c))
         /\ WF_vars(ListAvailableTools(c))
         /\ WF_vars(InitRead(c))
         /\ WF_vars(CallRead(c))

\* ------------------------------------------------------ approval_flow.py
\* A candidate is known to the approval flow by its security_warnings only;
\* of these the score reads how many contain 'HIGH RISK' and how many
\* 'MEDIUM RISK'.
WarningCounts == [high : 0..MaxWarnings, medium : 0..MaxWarnings]
CandidateLists == UNION {[1..n -> WarningCounts] : n \in 0..MaxCandidates}

Min(a, b) == IF a < b THEN a ELSE b

\* Mutant of RiskScore: every warning counts 1.0.
RiskScoreOnePerWarning(w) == Min(10 * (w.high + w.medium), RiskScoreCap)

\* SecurityScanner.calculate_risk_score, in tenths.
RiskScore(w) ==
    IF w.high + w.medium = 0 THEN 0
    ELSE Min(HighRiskWeight * w.high + MediumRiskWeight * w.medium, RiskScoreCap)

\* show_risk_summary: the class it counts a score in.
DisplayedLevel(score) ==
    IF score < DisplaySafeBelow THEN "safe"
    ELSE IF score < DisplayMediumBelow THEN "medium"
    ELSE "high"

\* get_security_summary: the class it counts a score in.
SummaryLevel(score) ==
    IF score > SummaryHighAbove THEN "high"
    ELSE IF score > SummaryMediumAbove THEN "medium"
    ELSE "safe"

\* The number of candidates of `cs` show_risk_summary counts in `level`.
DisplayedCount(cs, level) ==
    Cardinality({i \in 1..Len(cs) : DisplayedLevel(RiskScore(cs[i])) = level})

\* The number of functions get_security_summary counts in `level`.
SummaryCount(cs, level) ==
    Cardinality({i \in 1..Len(cs) : SummaryLevel(RiskScore(cs[i])) = level})

\* The three counters of show_risk_summary after its loop.
RiskSummary(cs) ==
    [shown |-> TRUE,
     safe |-> DisplayedCount(cs, "safe"),
     medium |-> DisplayedCount(cs, "medium"),
     high |-> DisplayedCount(cs, "high")]

\* The counters get_security_summary returns for functions with these
\* warnings.
SecuritySummary(cs) ==
    [safe_functions |-> SummaryCount(cs, "safe"),
     medium_risk_functions |-> SummaryCount(cs, "medium"),
     high_risk_functions |-> SummaryCount(cs, "high"),
     total_functions |-> Len(cs)]

\* Mutant of HighRiskCandidates: no candidate is found high-risk.
HighRiskCandidatesNone(cs) == <<>>

\* request_approval: the candidates whose score is 5.0 or more.
HighRiskCandidates(cs) ==
    SelectSeq(cs, LAMBDA c : RiskScore(c) >= HighRiskScore)

\* The two dictionaries request_approval returns.
ApprovedDecision(cs) ==
    [approved |-> TRUE, candidates |-> cs,
     metadata |-> [timestamp |-> "now",
                   risk_acknowledged |-> Len(HighRiskCandidates(cs)) > 0]]

RejectedDecision ==
    [approved |-> FALSE, reason |-> "User rejected conversion",
     metadata |-> [timestamp |-> "now"]]

\* Mutant of IntegrateResult: the candidates are returned whatever the
\* decision.
IntegrateResultAllCandidates(d) == <<d.approved, candidates>>

\* integrate_approval_step: the tuple returned for a decision.
IntegrateResult(d) ==
    IF d.approved THEN <<TRUE, d.candidates>> ELSE <<FALSE, <<>>>>

\* What get_approval_decision returns.
Decisions == {"approve", "reject", "show_details", "show_security", "show_help"}

\* Lines the user may type at the approval prompt, and what .lower().strip()
\* makes of each.
Lowered ==
    [y |-> "y", yes |-> "yes", n |-> "n", no |-> "no", d |-> "d",
     details |-> "details", s |-> "s", security |-> "security", h |-> "h",
     help |-> "help", maybe |-> "maybe", approve |-> "approve", ye |-> "ye"]
Stripped ==
    (" YES " :> "yes") @@ ("No" :> "no") @@ ("Y" :> "y") @@ ("" :> "")
    @@ ("   " :> "") @@ (" Details" :> "details") @@ ("y es" :> "y es")
    @@ Lowered
Inputs == DOMAIN Stripped
LowerStrip(raw) == Stripped[raw]

\* get_approval_decision with every answer read as a rejection.
ApprovalDecisionOfAlwaysReject(text) == "reject"

\* The if/elif chain of get_approval_decision on the normalised answer:
\* the decision returned, or "reprompt" where the loop asks again.
ApprovalDecisionOf(text) ==
    CASE text \in {"y", "yes"} -> "approve"
      [] text \in {"n", "no", ""} -> "reject"
      [] text \in {"d", "details"} -> "show_details"
      [] text \in {"s", "security"} -> "show_security"
      [] text \in {"h", "help"} -> "show_help"
      [] OTHER -> "reprompt"

ApprovalInit ==
    /\ GatewayInit
    /\ variant = "http"
    /\ candidates \in CandidateLists
    /\ interactive \in BOOLEAN
    /\ apc = "call"
    /\ decision = NoDecision
    /\ confirmed = "none"
    /\ prompted = FALSE
    /\ summaries = 0
    /\ returned = NoReturn
    /\ answer = NoInput
    /\ risk_summary = NoSummary
    /\ TesterOff

\* request_approval returns `d`: integrate_approval_step shows the summary
\* and returns.
Decided(d) ==
    /\ decision' = d
    /\ summaries' = summaries + 1
    /\ returned' = IntegrateResult(d)
    /\ apc' = "done"

\* integrate_approval_step up to the first input(): without `interactive`
\* it returns at once, otherwise request_approval prints its header and asks
\* for a decision.
IntegrateApprovalStep ==
    /\ apc = "call"
    /\ IF ~interactive
       THEN /\ returned' = <<TRUE, candidates>>
            /\ apc' = "done"
            /\ UNCHANGED risk_summary
       ELSE /\ apc' = "decide"
            /\ risk_summary' = RiskSummary(candidates)
            /\ UNCHANGED returned
    /\ UNCHANGED <<gatewayVars, candidates, interactive, decision, confirmed,
                   prompted, summaries, answer, testerVars>>

\* The main loop of request_approval, from the answer `d` of
\* get_approval_decision to the next input() or to the return.
RequestApproval(d) ==
    /\ apc = "decide"
    /\ prompted' = TRUE
    /\ CASE d = "approve" ->
              IF Len(HighRiskCandidates(candidates)) > 0
              THEN /\ apc' = "confirm"
                   /\ UNCHANGED <<decision, summaries, returned>>
              ELSE Decided(ApprovedDecision(candidates))
         [] d = "reject" -> Decided(RejectedDecision)
         [] OTHER -> UNCHANGED <<apc, decision, summaries, returned>>
    /\ UNCHANGED <<gatewayVars, candidates, interactive, risk_summary, confirmed,
                   testerVars>>

\* request_approval from the answer `yes` of confirm_high_risk_approval on:
\* the approval is returned, or the loop goes back to the main decision.
ConfirmHighRiskApproval(yes) ==
    /\ apc = "confirm"
    /\ confirmed' = IF yes THEN "yes" ELSE "no"
    /\ IF yes
       THEN Decided(ApprovedDecision(candidates))
       ELSE /\ apc' = "decide"
            /\ UNCHANGED <<decision, summaries, returned>>
    /\ UNCHANGED <<gatewayVars, candidates, interactive, risk_summary, prompted, answer,
                   testerVars>>

\* get_approval_decision reads the line `raw`: an unrecognised answer
\* prints the hint and asks again, any other is returned to the main loop of
\* request_approval.
GetApprovalDecision(raw) ==
    /\ apc = "decide"
    /\ answer' = raw
    /\ LET d == ApprovalDecisionOf(LowerStrip(raw))
       IN IF d \in Decisions
          THEN RequestApproval(d)
          ELSE /\ prompted' = TRUE
               /\ UNCHANGED <<gatewayVars, candidates, interactive, risk_summary, apc, decision,
                              confirmed, summaries, returned, testerVars>>

ApprovalNext ==
    \/ IntegrateApprovalStep
    \/ \E raw \in Inputs : GetApprovalDecision(raw)
    \/ \E yes \in BOOLEAN : ConfirmHighRiskApproval(yes)

ApprovalSpec == ApprovalInit /\ [][ApprovalNext]_vars

\* ------------------------------------------------- mcp_test_framework.py
\* The shapes a line read from the server under test can decode to.  A
\* "result" member is absent, null (or any scalar: `in` raises TypeError on
\* it), an object, or an array (or a string: `in` works on it, .get does
\* not); `names` are the keys of the object or the elements of the array.
ResultNames == {"protocolVersion", "capabilities"}

Results ==
    {[type |-> "absent", names |-> {}], [type |-> "null", names |-> {}]}
    \cup [type : {"object", "array"}, names : SUBSET ResultNames]

Messages ==
    [type : {"dict"}, jsonrpc : {"2.0", "1.0"}, id : BOOLEAN,
     method : {"absent", "str", "other"}, error : BOOLEAN, result : Results]

NonDict == [type |-> "nondict"]
InvalidJson == [type |-> "notjson"]

TesterLines == Messages \cup {NonDict, InvalidJson}

\* ProtocolValidator.validate_json_rpc.
ValidateJsonRpc(message) ==
    /\ message.type = "dict"
    /\ message.jsonrpc = "2.0"
    /\ (message.id \/ message.method # "absent")
    /\ IF message.method # "absent"
       THEN message.method = "str"
       ELSE message.result.type # "absent" \/ message.error

\* validate_initialize_response without its test for "capabilities".
ValidateInitializeResponseNoCapabilities(response) ==
    IF ~ValidateJsonRpc(response) THEN "invalid"
    ELSE IF response.error THEN "invalid"
    ELSE IF response.result.type = "null" THEN "raise"
    ELSE IF "protocolVersion" \notin response.result.names THEN "invalid"
    ELSE "valid"

\* ProtocolValidator.validate_initialize_response: "valid", "invalid", or
\* "raise" where `in` is applied to a result that is no container.  An absent
\* result defaults to {}.
ValidateInitializeResponse(response) ==
    IF ~ValidateJsonRpc(response) THEN "invalid"
    ELSE IF response.error THEN "invalid"
    ELSE IF response.result.type = "null" THEN "raise"
    ELSE IF "protocolVersion" \notin response.result.names THEN "invalid"
    ELSE IF "capabilities" \notin response.result.names THEN "invalid"
    ELSE "valid"

\* What initialize_server returns: (is_valid, msg, response).
TesterReturn(ok, msg, response) ==
    [pending |-> FALSE, success |-> ok, msg |-> msg, response |-> response]

\* The except clause of initialize_server.
InitializationFailed == TesterReturn(FALSE, "failed", NoResponse)

TesterWrite(what, id) == [dir |-> "w", what |-> what, id |-> id]
TesterReadEv == [dir |-> "r", what |-> "line", id |-> 0]

\* A tester on which initialize_server is about to be called: start_server
\* set self.process (and the server may have died since), or was never
\* called.
TesterInit ==
    /\ GatewayInit
    /\ variant = "http"
    /\ ApprovalOff
    /\ tester_counter = 0
    /\ tester_wire = <<>>
    /\ tester_response = NoResponse
    /\ tester_result = NoTesterResult
    /\ suite_results = <<>>
    /\ \/ /\ suite_pc = "off"
          /\ cases_left = 0
          /\ tester_pc = "call"
          /\ tester_process \in {"none", "alive", "dead"}
       \/ /\ suite_pc = "start"
          /\ cases_left \in 1..MaxCases
          /\ tester_pc = "off"
          /\ tester_process = "none"

\* initialize_server up to the first readline of send_request: without a
\* process send_request raises before it counts; the write to a dead
\* process raises after it; both end in the except clause.
InitializeServer ==
    /\ tester_pc = "call"
    /\ IF tester_process = "none"
       THEN /\ tester_pc' = "done"
            /\ tester_result' = InitializationFailed
            /\ UNCHANGED <<tester_counter, tester_wire>>
       ELSE /\ tester_counter' = tester_counter + 1
            /\ IF tester_process = "dead"
               THEN /\ tester_pc' = "done"
                    /\ tester_result' = InitializationFailed
                    /\ UNCHANGED tester_wire
               ELSE /\ tester_pc' = "wait"
                    /\ tester_wire' = Append(tester_wire,
                                         TesterWrite("initialize", tester_counter'))
                    /\ UNCHANGED tester_result
    /\ UNCHANGED <<tester_process, tester_response>>
    /\ UNCHANGED <<gatewayVars, approvalVars, suiteVars>>

\* send_request reads the line `line` and initialize_server runs to its
\* return: json.loads, the validation, the read of the capabilities (.get on
\* a result that is no object raises), send_notification (raises on a dead
\* process), and the return or the except clause.
InitializeRead(line) ==
    /\ tester_pc = "wait"
    /\ tester_pc' = "done"
    /\ LET valid == ValidateInitializeResponse(line)
           raised == \/ line = InvalidJson
                     \/ valid = "raise"
                     \/ valid = "valid" /\ line.result.type # "object"
                     \/ valid = "valid" /\ tester_process # "alive"
           notify == valid = "valid" /\ line.result.type = "object"
                     /\ tester_process = "alive"
       IN /\ tester_response' = IF line = InvalidJson THEN NoResponse ELSE line
          /\ tester_wire' =
               IF line # InvalidJson /\ notify
               THEN tester_wire \o <<TesterReadEv,
                                     TesterWrite("notifications/initialized", 0)>>
               ELSE Append(tester_wire, TesterReadEv)
          /\ tester_result' =
               IF raised THEN InitializationFailed
               ELSE TesterReturn(valid = "valid",
                                 IF valid = "valid" THEN "valid" ELSE "invalid",
                                 line)
    /\ UNCHANGED <<tester_process, tester_counter>>
    /\ UNCHANGED <<gatewayVars, approvalVars, suiteVars>>

\* send_request on a dead server that left no line: readline returns ''
\* until the timeout passes, then TimeoutError reaches the except clause.
InitializeTimeout ==
    /\ tester_pc = "wait"
    /\ tester_process = "dead"
    /\ tester_pc' = "done"
    /\ tester_result' = InitializationFailed
    /\ UNCHANGED <<tester_process, tester_counter, tester_wire, tester_response>>
    /\ UNCHANGED <<gatewayVars, approvalVars, suiteVars>>

\* The server under test exits.
TesterProcExit ==
    /\ tester_pc = "wait" \/ suite_pc \in {"case", "case_wait"}
    /\ tester_process = "alive"
    /\ tester_process' = "dead"
    /\ UNCHANGED <<tester_pc, tester_counter, tester_wire, tester_response,
                   tester_result>>
    /\ UNCHANGED <<gatewayVars, approvalVars, suiteVars>>

\* TestResult, and the TestExecution run_test_case builds: its result and
\* whether its message is the one of the asyncio.TimeoutError clause.
TestResults == {"passed", "failed", "error"}
TestExecution(result, timed_out) == [result |-> result, timed_out |-> timed_out]

\* What start_server leaves in self.process: Popen raised (None), the
\* process had exited when polled after two seconds, or it runs.
StartOutcomes == {"none", "dead", "alive"}

\* run_test_suite up to the first read of its setup (tool_test_setup):
\* start_server; when it returns False the setup raises and run_test_suite
\* returns the empty list, otherwise the setup calls initialize_server.
RunTestSuite ==
    /\ suite_pc = "start"
    /\ \E started \in StartOutcomes :
         /\ tester_process' = started
         /\ IF started = "alive"
            THEN /\ suite_pc' = "setup"
                 /\ tester_pc' = "call"
            ELSE /\ suite_pc' = "done"
                 /\ UNCHANGED tester_pc
    /\ UNCHANGED <<tester_counter, tester_wire, tester_response, tester_result,
                   suite_results, cases_left>>
    /\ UNCHANGED <<gatewayVars, approvalVars>>

\* tool_test_setup after initialize_server returned, and run_test_suite's
\* except clause: a failed initialization raises and run_test_suite returns
\* at once, without its teardown.
SetupReturns ==
    /\ suite_pc = "setup"
    /\ tester_pc = "done"
    /\ suite_pc' = IF tester_result.success THEN "case" ELSE "done"
    /\ UNCHANGED <<tester_pc, tester_process, tester_counter, tester_wire,
                   tester_response, tester_result, suite_results, cases_left>>
    /\ UNCHANGED <<gatewayVars, approvalVars>>

\* run_test_case returns the TestExecution `e`, which run_test_suite
\* appends; after the last case the teardown follows.
Recorded(e) ==
    /\ suite_results' = Append(suite_results, e)
    /\ cases_left' = cases_left - 1
    /\ suite_pc' = IF cases_left > 1 THEN "case" ELSE "teardown"

\* run_test_case up to the readline() of the test function's send_request.
\* The write to a server that has exited raises; the test function turns
\* that into a failure or lets it through to the except clause.
RunTestCase ==
    /\ suite_pc = "case"
    /\ tester_counter' = tester_counter + 1
    /\ IF tester_process = "alive"
       THEN /\ tester_wire' = Append(tester_wire,
                                     TesterWrite("tools/call", tester_counter'))
            /\ suite_pc' = "case_wait"
            /\ UNCHANGED <<suite_results, cases_left>>
       ELSE /\ \E r \in {"failed", "error"} : Recorded(TestExecution(r, FALSE))
            /\ UNCHANGED tester_wire
    /\ UNCHANGED <<tester_pc, tester_process, tester_response, tester_result>>
    /\ UNCHANGED <<gatewayVars, approvalVars>>

\* readline() returns a line; the test function judges it and returns, or
\* raises, and run_test_case builds the TestExecution.
CaseRead(r) ==
    /\ suite_pc = "case_wait"
    /\ tester_wire' = Append(tester_wire, TesterReadEv)
    /\ Recorded(TestExecution(r, FALSE))
    /\ UNCHANGED <<tester_pc, tester_process, tester_counter, tester_response,
                   tester_result>>
    /\ UNCHANGED <<gatewayVars, approvalVars>>

\* The server has exited without a line: readline() returns '' at once,
\* the loop of send_request sleeps between its attempts, and the event loop
\* gets to run.  Either the wait_for of run_test_case expires first (the
\* asyncio.TimeoutError clause), or the TimeoutError of send_request reaches
\* the test function, which judges it.
CaseTimeout ==
    /\ suite_pc = "case_wait"
    /\ tester_process = "dead"
    /\ \/ Recorded(TestExecution("error", TRUE))
       \/ \E r \in TestResults : Recorded(TestExecution(r, FALSE))
    /\ UNCHANGED <<tester_pc, tester_process, tester_counter, tester_wire,
                   tester_response, tester_result>>
    /\ UNCHANGED <<gatewayVars, approvalVars>>

\* The teardown of the suite (tool_test_teardown): stop_server terminates
\* the process and kills it if it has not exited a second later; then
\* run_test_suite returns.
Teardown ==
    /\ suite_pc = "teardown"
    /\ suite_pc' = "done"
    /\ tester_process' = IF tester_process = "none" THEN "none" ELSE "dead"
    /\ UNCHANGED <<tester_pc, tester_counter, tester_wire, tester_response,
                   tester_result, suite_results, cases_left>>
    /\ UNCHANGED <<gatewayVars, approvalVars>>

TesterNext ==
    \/ InitializeServer
    \/ \E line \in TesterLines : InitializeRead(line)
    \/ InitializeTimeout
    \/ TesterProcExit
    \/ RunTestSuite
    \/ SetupReturns
    \/ RunTestCase
    \/ \E r \in TestResults : CaseRead(r)
    \/ CaseTimeout
    \/ Teardown

TesterSpec == TesterInit /\ [][TesterNext]_vars

\* The runner's own steps are taken when they can be; nothing is assumed of
\* the server under test (whether it writes a line, whether it exits).
TesterFairSpec ==
    /\ TesterSpec
    /\ WF_vars(InitializeServer)
    /\ WF_vars(InitializeTimeout)
    /\ WF_vars(RunTestSuite)
    /\ WF_vars(SetupReturns)
    /\ WF_vars(RunTestCase)
    /\ WF_vars(CaseTimeout)
    /\ WF_vars(Teardown)

\* ------------------------------------------------------------------ claims
CounterStart == IF variant = "http" THEN HttpCounterStart ELSE StdioCounterStart
IsRequestWrite(ev) == ev.dir = "w" /\ ev.id # 0
IsToolCall(ev) == ev.dir = "w" /\ ev.what = "tools/call"
InFlight(c) == pc[c] \in {"init_read", "call_read"}

\* C1: at-most-one process per identifier.  Whatever number of execute_tool
\* calls race for an identifier, the processes launched for it and not
\* terminated by the gateway number at most one, and every caller that is
\* using a ServerProcess uses the one the pool maps its identifier to.
C1_AtMostOneProcess ==
    /\ \A p, q \in Pids :
         (p # q /\ procs[p].server_id = procs[q].server_id)
            => (procs[p].state = "terminated" \/ procs[q].state = "terminated")
    /\ \A c \in Callers :
         held[c] # 0 => active[procs[held[c]].server_id] = held[c]

\* Two execute_tool calls on one identifier were both forwarded, and one
\* process was launched in all.
C1_Witness ==
    /\ calls = 2
    /\ Len(procs) = 1
    /\ request_counter = CounterStart + 2
    /\ \A c \in Callers : pc[c] = "idle"

\* C2: per-process serialization.  On the wire of every subprocess, between
\* the writes of any two request frames there is a read of a response.
C2_Serialized ==
    \A p \in Pids : \A i, j \in 1..Len(wire[p]) :
        (i < j /\ IsRequestWrite(wire[p][i]) /\ IsRequestWrite(wire[p][j]))
            => \E k \in (i + 1)..(j - 1) : wire[p][k].dir = "r"

\* Some subprocess was sent two tools/call requests.
C2_Witness ==
    \E p \in Pids : \E i, j \in 1..Len(wire[p]) :
        i < j /\ IsToolCall(wire[p][i]) /\ IsToolCall(wire[p][j])

\* C3: no tools/call frame is written to a subprocess before its handshake
\* (initialize request written, response read, initialized notification
\* written, in that order) has completed, in either gateway.
C3_HandshakeBeforeToolCall ==
    \A p \in Pids : \A j \in 1..Len(wire[p]) :
        IsToolCall(wire[p][j]) =>
            \E i1, i2, i3 \in 1..(j - 1) :
                /\ i1 < i2 /\ i2 < i3
                /\ wire[p][i1].dir = "w" /\ wire[p][i1].what = "initialize"
                /\ wire[p][i2].dir = "r"
                /\ wire[p][i3].dir = "w"
                /\ wire[p][i3].what = "notifications/initialized"

\* C4: when get-or-create fails (the launch fails, or the handler ends
\* inside the handshake), the pool has no entry for the identifier and the
\* process started in the attempt has been terminated.
C4_FailedCreateLeavesNothing ==
    [][\A c \in Callers :
        (\/ pc[c] = "pending" /\ pc'[c] = "idle" /\ last'.outcome.type = "OSError"
         \/ pc[c] = "init_read" /\ pc'[c] = "idle")
        => /\ active'[req[c].server_id] = 0
           /\ held[c] # 0 => procs'[held[c]].state = "terminated"]_vars

\* An entry is idle beyond its timeout.
Expired(sid) ==
    /\ active[sid] # 0
    /\ now - procs[active[sid]].last_used > IdleTimeout(sid)

\* C5: idle reclamation.  An entry of the HTTP gateway that is idle beyond
\* its timeout is eventually removed from the pool, unless a call touches it.
C5_IdleEntryReclaimed ==
    \A sid \in Registry :
        (variant = "http" /\ Expired(sid)) ~> (~Expired(sid))

\* C6: stop idempotence.  stop_server on an identifier that is not active
\* returns "not_running" and changes nothing in the pool; on an active
\* identifier it returns "stopped" and the identifier is no longer active
\* (so that a second stop_server returns "not_running").
C6_StopIdempotent ==
    [][\A c \in Callers :
        (pc[c] = "pending" /\ req[c].op = "stop_server" /\ pc'[c] = "idle")
        => IF req[c].server_id \in Registry /\ active[req[c].server_id] # 0
           THEN /\ last'.outcome = Return("stopped")
                /\ active'[req[c].server_id] = 0
           ELSE /\ last'.outcome = Return("not_running")
                /\ UNCHANGED poolVars]_vars

\* C7: round trip.  A call that ended on a response frame carrying a result
\* returned exactly that result; a call that ended on a frame carrying an
\* error object raised an error that carries that object (code and message).
C7_RoundTrip ==
    last.op = "execute_tool" =>
        /\ last.read.kind = "result" => last.outcome = Return(last.read.result)
        /\ last.read.kind = "error" =>
              /\ last.outcome.status = "raise"
              /\ last.outcome.error = last.read.error

\* A call was answered with an error object and raised it.
C7_Witness ==
    /\ last.op = "execute_tool"
    /\ last.read.kind = "error"
    /\ last.outcome = Raise("Exception", "Tool execution error", UnknownTool)

\* The handler of c ends in this step after reading `line`.
EndsOnLine(c, line) == InFlight(c) /\ pc'[c] = "idle" /\ last'.read = line

\* The entry the handler of c was using is torn down: the pool no longer
\* maps its identifier to that process, and the process is terminated.
TornDown(c) ==
    /\ active'[procs[held[c]].server_id] # held[c]
    /\ procs'[held[c]].state = "terminated"

\* C8: malformed frame.  When a call fails on a line that is no JSON, the
\* session is closed: its pool entry is torn down, so that the next call
\* launches a fresh subprocess.
C8_MalformedFrameClosesSession ==
    [][\A c \in Callers : EndsOnLine(c, NotJson) => TornDown(c)]_vars

\* C9: end of file.  When the subprocess closes its stdout without a
\* response, the call fails and the entry is removed from the pool.
C9_EofRemovesEntry ==
    [][\A c \in Callers :
        EndsOnLine(c, Eof)
            => /\ last'.outcome.status = "raise"
               /\ active'[procs[held[c]].server_id] # held[c]]_vars

\* The inputs execute_tool rejects: an identifier that is not registered,
\* a string that is no JSON, a value that is neither a dict nor a string.
InvalidInput(r) ==
    \/ r.server_id \notin Registry
    \/ r.arguments \in {"str_bad", "int"}

\* C10: validation failures come before any subprocess interaction.  The
\* handler of an invalid call ends in its first step with a ValueError; no
\* process is launched, no frame is written, and the pool and the request
\* counter are as they were.
C10_ValidationBeforeInteraction ==
    [][\A c \in Callers :
        (pc[c] = "pending" /\ req[c].op = "execute_tool" /\ InvalidInput(req[c])
            /\ pc'[c] # "pending")
        => /\ pc'[c] = "idle"
           /\ last'.outcome.status = "raise"
           /\ last'.outcome.type = "ValueError"
           /\ UNCHANGED <<poolVars, request_counter>>]_vars

\* A call with arguments of a wrong type was rejected while the pool held a
\* process.
C10_Witness ==
    /\ last.op = "execute_tool"
    /\ last.outcome = Raise("ValueError", "Arguments must be dict or JSON string",
                            NoError)
    /\ Len(procs) > 0

\* C11: every tools/call frame written to a subprocess carries
\* params.arguments that is a JSON object, whatever the caller passed (a call
\* whose arguments cannot be made an object is rejected instead).
C11_ForwardedArgumentsObject ==
    \A p \in Pids : \A i \in 1..Len(wire[p]) :
        IsToolCall(wire[p][i]) => wire[p][i].args \in {"{}", "obj"}

\* C12: calls to different identifiers proceed in parallel.  While the
\* handler of one call waits for the response of its subprocess, a pending
\* execute_tool call for another identifier can start, and so can a pass of
\* the idle monitor.
C12_DifferentIdsInParallel ==
    \A c, d \in Callers :
        (/\ InFlight(d)
         /\ pc[c] = "pending"
         /\ req[c].op = "execute_tool"
         /\ req[c].server_id # req[d].server_id)
        => /\ ENABLED ExecBegin(c)
           /\ monitor = "scheduled" => ENABLED IdleTick

\* C13: no process outlives the gateway.  When main has ended, the pool map
\* is empty and no process that was launched is still running.
C13_NothingOutlivesShutdown ==
    phase = "stopped" =>
        /\ \A s \in Registry : active[s] = 0
        /\ \A p \in Pids : procs[p].state # "running"

\* C14: an application-level error never affects the process lifecycle.
\* When a call fails on a response frame that carries an error object, the
\* pool is as it was: the identifier is still mapped to the same process,
\* which has the same started_at and has not been terminated.
C14_RpcErrorKeepsProcess ==
    [][\A c \in Callers : \A line \in Replies :
        (line.kind = "error" /\ EndsOnLine(c, line))
        => /\ last'.outcome.status = "raise"
           /\ active' = active
           /\ active'[req[c].server_id] = held[c]
           /\ procs'[held[c]].started_at = procs[held[c]].started_at
           /\ procs'[held[c]].state = "running"]_vars

\* A call failed on an error object, and the pool still maps its identifier
\* to a running process.
C14_Witness ==
    /\ last.op = "execute_tool"
    /\ last.read.kind = "error"
    /\ last.outcome.status = "raise"
    /\ active[last.server_id] # 0
    /\ procs[active[last.server_id]].state = "running"

\* C15: get-or-create hands back an existing entry only if its session is
\* open.  When execute_tool starts for an identifier whose entry holds a
\* process that has exited, the handler does not go on with that entry: the
\* pool maps the identifier to a newly launched process (or to none, when the
\* launch failed).
C15_ClosedEntryNotReused ==
    [][\A c \in Callers :
        (/\ pc[c] = "pending"
         /\ pc'[c] # "pending"
         /\ req[c].op = "execute_tool"
         /\ ~InvalidInput(req[c])
         /\ active[req[c].server_id] # 0
         /\ procs[active[req[c].server_id]].state # "running")
        => active'[req[c].server_id] # active[req[c].server_id]]_vars

\* The handler of c, a call of operation o, runs in this step.
Runs(c, o) == pc[c] = "pending" /\ req[c].op = o /\ pc'[c] = "idle"

\* C16: list_active_servers returns a snapshot with exactly one record per
\* entry of the pool, carrying the entry's server_id, started_at and
\* last_used and the idle_timeout the idle monitor uses for the entry (the
\* registry's, or 300); the operation changes neither the pool nor any
\* last_used.
C16_ActiveServersSnapshot ==
    [][\A c \in Callers : Runs(c, "list_active_servers") =>
        LET L == last'.listing IN
        /\ \A s \in Registry :
             Cardinality({k \in 1..Len(L) : L[k].server_id = s})
                = IF active[s] # 0 THEN 1 ELSE 0
        /\ \A k \in 1..Len(L) :
             LET s == L[k].server_id IN
             /\ s \in Registry
             /\ L[k].idle_timeout = IdleTimeout(s)
             /\ L[k].started_at = IsoFormat(procs[active[s]].started_at)
             /\ L[k].last_used = IsoFormat(procs[active[s]].last_used)
        /\ UNCHANGED <<active, procs>>]_vars

\* A listing showed an entry whose identifier configures no idle_timeout.
C16_Witness ==
    /\ last.op = "list_active_servers"
    /\ \E k \in 1..Len(last.listing) :
         /\ last.listing[k].server_id = "b"
         /\ last.listing[k].idle_timeout = DefaultIdleTimeout

\* C17: list_available_tools is a pure read of the registry.  It returns
\* exactly one descriptor per configured (server, tool) pair and nothing
\* else, launches no subprocess, and leaves the pool, the entries and the
\* request counter as they were, whatever came before.
C17_AvailableToolsPureRead ==
    [][\A c \in Callers : Runs(c, "list_available_tools") =>
        LET L == last'.listing IN
        /\ \A s \in DOMAIN ConfiguredTools : \A i \in 1..Len(ConfiguredTools[s]) :
             Cardinality({k \in 1..Len(L) :
                 L[k] = Descriptor(s, ConfiguredTools[s][i])}) = 1
        /\ \A k \in 1..Len(L) :
             /\ L[k].server \in DOMAIN ConfiguredTools
             /\ \E i \in 1..Len(ConfiguredTools[L[k].server]) :
                  ConfiguredTools[L[k].server][i] = L[k].name
        /\ UNCHANGED <<active, procs, wire, request_counter>>]_vars

\* The tools were listed while the pool held a process.
C17_Witness ==
    /\ last.op = "list_available_tools"
    /\ Len(last.listing) = 2
    /\ \E s \in Registry : active[s] # 0

\* The error category of what went wrong: of a rejected request, and of the
\* line a call failed on.
RequestCategory(r) ==
    IF r.server_id \notin Registry THEN "UnknownServer" ELSE "ArgumentError"

LineCategory(line) ==
    CASE line.kind = "error" -> "RpcError"
      [] line.kind = "notjson" -> "ProtocolError"
      [] OTHER -> "ConnectionLost"

\* What a caller sees of a failure without reading the payload: the type of
\* the exception and the fixed part of its message.
Kind(o) == <<o.type, o.text>>

\* Every <<category, kind>> with which execute_tool can fail in the gateway
\* that is running.
Failures ==
    {<<RequestCategory(r), Kind(Validate(r))>> :
        r \in {q \in Requests : q.op = "execute_tool" /\ InvalidInput(q)}}
    \cup {<<LineCategory(l), Kind(ResponseOutcome(l))>> :
        l \in {m \in Replies \cup {Eof} : ResponseOutcome(m).status = "raise"}}

\* C18: the kind of a failure identifies its category.  When execute_tool
\* has failed, the kind it reported is the kind of one category only: no
\* failure of another category is reported with the same kind.
C18_KindIdentifiesCategory ==
    (last.op = "execute_tool" /\ last.outcome.status = "raise") =>
        \A f, g \in Failures :
            (f[2] = Kind(last.outcome) /\ g[2] = f[2]) => f[1] = g[1]

\* Some candidate has a risk score of 5.0 or more.
SomeHighRisk == \E i \in 1..Len(candidates) : RiskScore(candidates[i]) >= HighRiskScore

RiskAcknowledged ==
    /\ "risk_acknowledged" \in DOMAIN decision.metadata
    /\ decision.metadata.risk_acknowledged

\* C19: request_approval approves high-risk candidates only on a confirmed
\* approval.  Once it has returned: with a high-risk candidate, approved is
\* True only if the last confirm_high_risk_approval answered yes; without
\* one, no confirmation was asked and risk_acknowledged is False;
\* risk_acknowledged is True exactly when high-risk candidates were
\* approved.  A declined confirmation leads back to the main prompt, with
\* nothing returned.
C19_HighRiskNeedsConfirmation ==
    /\ [](decision # NoDecision =>
            /\ (decision.approved /\ SomeHighRisk) => confirmed = "yes"
            /\ ~SomeHighRisk => confirmed = "none"
            /\ RiskAcknowledged <=> (decision.approved /\ SomeHighRisk))
    /\ [][(apc = "confirm" /\ confirmed' = "no")
            => (apc' = "decide" /\ decision' = NoDecision)]_vars

\* A confirmation was declined and the workflow then ended in rejection.
C19_Witness ==
    /\ SomeHighRisk
    /\ confirmed = "no"
    /\ decision # NoDecision
    /\ ~decision.approved

\* C20: integrate_approval_step.  Without `interactive` it returns (True,
\* the candidates as given) and neither prompts nor shows a summary; with it,
\* it returns (True, the approved candidates) on approval and (False, the
\* empty list) on rejection, and has shown the summary exactly once.
C20_IntegrateApprovalStep ==
    /\ apc = "done" =>
          IF interactive
          THEN /\ summaries = 1
               /\ returned = IF decision.approved THEN <<TRUE, candidates>>
                                                  ELSE <<FALSE, <<>>>>
          ELSE /\ returned = <<TRUE, candidates>>
               /\ ~prompted
               /\ summaries = 0
    /\ apc \in {"call", "decide", "confirm"} => (summaries = 0 /\ returned = NoReturn)

\* An interactive call with candidates ended in rejection.
C20_Witness ==
    /\ apc = "done"
    /\ interactive
    /\ Len(candidates) > 0
    /\ returned = <<FALSE, <<>>>>
    /\ summaries = 1

\* C21: response attribution.  A call returns the content of a response
\* frame only if the frame carries the id of the request the call sent; a
\* call that read a frame with another id fails.
C21_ResponseAttribution ==
    (last.op = "execute_tool" /\ last.read.kind \in {"result", "error"}
        /\ ~last.read.own)
    => (last.outcome.status = "raise" /\ last.outcome.error = NoError)

\* C22: request ids.  The ids of the requests written to any one subprocess
\* are strictly increasing (so none is used twice), and the id of every
\* tools/call request is greater than the id of every initialize request
\* written to that subprocess.
C22_RequestIdsIncrease ==
    \A p \in Pids : \A i, j \in 1..Len(wire[p]) :
        (i < j /\ IsRequestWrite(wire[p][i]) /\ IsRequestWrite(wire[p][j]))
        => /\ wire[p][i].id < wire[p][j].id
           /\ (wire[p][i].what = "initialize" /\ IsToolCall(wire[p][j]))
                => wire[p][j].id > InitRequestId

\* A subprocess was sent its initialize request and then the tools/call
\* requests of two calls.
C22_Witness ==
    \E p \in Pids : \E i, j, k \in 1..Len(wire[p]) :
        /\ i < j /\ j < k
        /\ wire[p][i].dir = "w" /\ wire[p][i].what = "initialize"
        /\ IsToolCall(wire[p][j])
        /\ IsToolCall(wire[p][k])

\* C23: terminate_container on a present entry always removes it.  When
\* stop_server runs for an identifier that is in the pool, the entry is
\* gone afterwards, its process is no longer running (killed if it did not
\* exit in time), and the call does not fail.
C23_TerminateAlwaysRemoves ==
    [][\A c \in Callers :
        (Runs(c, "stop_server") /\ req[c].server_id \in Registry
            /\ active[req[c].server_id] # 0)
        => /\ active'[req[c].server_id] = 0
           /\ procs'[active[req[c].server_id]].state # "running"
           /\ last'.outcome.status = "return"]_vars

\* C24: a failure while terminating one idle entry does not abort the
\* pass of the idle monitor.  An entry that is found idle and whose own
\* termination cannot fail (its process has already exited) is removed by
\* every pass: no pass can leave it in the pool.
C24_TickFailureIsolated ==
    \A q \in IdlePids :
        procs[q].state = "exited"
            => ~ENABLED (IdleTick /\ active'[procs[q].server_id] = q)

\* C25: the idle monitor terminates an entry only if its idle time exceeds
\* its timeout.  A pass that changes the pool leaves every entry whose idle
\* time is at most its timeout in the pool, with its process and its fields
\* as they were.
C25_OnlyExpiredReclaimed ==
    [][(pc' = pc /\ phase' = phase /\ active' # active) =>
        \A s \in Registry :
            (active[s] # 0 /\ now - procs[active[s]].last_used <= IdleTimeout(s))
            => /\ active'[s] = active[s]
               /\ procs'[active[s]] = procs[active[s]]]_vars

\* A pass removed the entry of "a" and left the entry of "b", idle for
\* exactly its timeout.
C25_Witness ==
    /\ phase = "serving"
    /\ calls = 2
    /\ Len(procs) = 2
    /\ \A c \in Callers : pc[c] = "idle"
    /\ active["a"] = 0
    /\ active["b"] # 0
    /\ procs[active["b"]].state = "running"
    /\ now - procs[active["b"]].last_used = IdleTimeout("b")

\* C26: the idle monitor is stopped at shutdown.  Once cleanup has run in
\* the gateway that has an idle monitor, the monitor task is cancelled,
\* whether or not the termination of an entry raised.
C26_MonitorCancelledAtShutdown ==
    (variant = "http" /\ phase = "stopped") => monitor = "cancelled"

\* The call that ended last failed on the end of the stream or on a write.
LastLostConnection ==
    /\ last.op = "execute_tool"
    /\ last.outcome.status = "raise"
    /\ \/ last.read = Eof
       \/ last.outcome.type = "BrokenPipeError"
       \/ last.outcome.error.message = "Broken pipe"

\* C27: a closed session fails fast.  When the call on an identifier has
\* failed on the end of the stream or on a write, the next call routed to the
\* same subprocess ends at once with the same error, and nothing is written
\* to or read from the subprocess.
C27_ClosedSessionFailsFast ==
    [][\A c \in Callers :
        (/\ LastLostConnection
         /\ pc[c] = "pending" /\ pc'[c] # "pending"
         /\ req[c].op = "execute_tool" /\ ~InvalidInput(req[c])
         /\ req[c].server_id = last.server_id
         /\ active[req[c].server_id] # 0
         /\ procs[active[req[c].server_id]].state # "running")
        => /\ pc'[c] = "idle"
           /\ last'.outcome = last.outcome
           /\ wire' = wire]_vars

\* C28: last_used follows the use of an entry.  The last_used of a process
\* never decreases, and when a call is forwarded (its handler goes on to wait
\* for a subprocess) the entry it uses is stamped with the time at which the
\* call started; so when the call returns, last_used is at least that time.
C28_LastUsedFollowsUse ==
    [][/\ \A p \in Pids : procs'[p].last_used >= procs[p].last_used
       /\ \A c \in Callers :
            (pc[c] = "pending" /\ InFlight(c)')
                => procs'[held'[c]].last_used = now]_vars

\* A call on an entry launched earlier returned a result, and the entry's
\* last_used is later than its start.
C28_Witness ==
    /\ last.op = "execute_tool"
    /\ last.outcome.status = "return"
    /\ active[last.server_id] # 0
    /\ procs[active[last.server_id]].last_used
          > procs[active[last.server_id]].started_at

\* C29: the initialize response is validated.  A handshake in which the
\* response to initialize is an error object cannot go on: from no state can
\* the handler, having read such a response, send the initialized
\* notification and its tools/call request.
C29_InitResponseValidated ==
    \A c \in Callers : \A line \in Replies :
        (pc[c] = "init_read" /\ line.kind = "error")
            => ~ENABLED (InitReadOn(c, line) /\ pc'[c] = "call_read")

\* C30 helpers: the response the claim calls valid, and the position of an
\* event on the tester's wire.
WellFormedInitializeResponse(m) ==
    /\ m.type = "dict"
    /\ m.jsonrpc = "2.0"
    /\ ~m.error
    /\ m.result.type = "object"
    /\ ResultNames \subseteq m.result.names
NotificationWritten ==
    \E i \in 1..Len(tester_wire) : tester_wire[i].what = "notifications/initialized"

\* C30: initialize_server reports success only for a JSON-RPC 2.0 response
\* without an error whose result holds protocolVersion and capabilities; the
\* initialized notification is on the wire exactly when success is reported,
\* it is written whenever such a response was read from a live server, and
\* the line read lies between the initialize request and the notification.
C30_InitializeServerValidates ==
    /\ \A i \in 1..Len(tester_wire) :
         tester_wire[i].what = "notifications/initialized"
         => /\ i = 3
            /\ tester_wire[1] = TesterWrite("initialize", 1)
            /\ tester_wire[2] = TesterReadEv
            /\ WellFormedInitializeResponse(tester_response)
    /\ tester_pc = "done"
       => /\ tester_result.success => WellFormedInitializeResponse(tester_response)
          /\ tester_result.success <=> NotificationWritten
          /\ tester_result.success => tester_result.response = tester_response
          /\ (WellFormedInitializeResponse(tester_response)
                /\ ValidateJsonRpc(tester_response) /\ tester_process = "alive")
             => tester_result.success
C30_Witness ==
    /\ tester_pc = "done"
    /\ tester_result.success
    /\ NotificationWritten
    /\ tester_response.id

\* C30 as stated: once initialize_server has read a response and returned,
\* the initialized notification is on the wire if and only if
\* validate_initialize_response accepted the response.
C30_NotificationIffValidation ==
    (tester_pc = "done" /\ tester_response # NoResponse)
    => (NotificationWritten <=> ValidateInitializeResponse(tester_response) = "valid")

\* C31 helpers: the normalised answers the prompt documents.
EndingAnswers == {"y", "yes", "n", "no", ""}
ShowingAnswers == {"d", "details", "s", "security", "h", "help"}
Typed == LowerStrip(answer')

\* C31: the approval loop ends only on a decision.  From the main prompt,
\* request_approval returns only on a 'reject' answer (empty input included),
\* which returns the rejection, or on an 'approve' answer without high-risk
\* candidates; with high-risk candidates 'approve' leads to the confirmation,
\* and only a confirmed approval returns.  A details/security/help answer and
\* any unrecognised answer keep the loop at the main prompt and leave the
\* decision, the confirmation and everything returned untouched.
C31_LoopEndsOnDecision ==
    /\ [][apc = "decide" =>
            /\ apc' = "done" =>
                 \/ /\ Typed \in {"n", "no", ""}
                    /\ decision' = RejectedDecision
                    /\ returned' = <<FALSE, <<>>>>
                 \/ /\ Typed \in {"y", "yes"}
                    /\ ~SomeHighRisk
                    /\ decision'.approved
                    /\ returned' = <<TRUE, candidates>>
            /\ Typed \in {"n", "no", ""} => apc' = "done"
            /\ Typed \in {"y", "yes"} =>
                 apc' = IF SomeHighRisk THEN "confirm" ELSE "done"
            /\ Typed \notin EndingAnswers =>
                 /\ apc' = "decide"
                 /\ <<decision, confirmed, summaries, returned, candidates>>'
                      = <<decision, confirmed, summaries, returned, candidates>>]_vars
    /\ [][apc = "confirm" =>
            /\ apc' \in {"decide", "done"}
            /\ apc' = "done" <=> confirmed' = "yes"
            /\ apc' = "done" => (decision'.approved /\ returned' = <<TRUE, candidates>>)]_vars
    /\ [](apc = "done" /\ interactive => decision # NoDecision)

\* The user asked for the details (typed with a capital and a blank) and the
\* loop is back at the main prompt with nothing returned.
C31_Witness ==
    /\ apc = "decide"
    /\ answer = " Details"
    /\ prompted
    /\ returned = NoReturn
    /\ decision = NoDecision

\* C32: the idle monitor never terminates a subprocess while a call to it
\* is in flight.  A step that starts or ends no handler and leaves the
\* gateway serving (a pass of the idle monitor) terminates no process that a
\* handler has written a request to and not yet read the response from, and
\* leaves the pool entry of that process in place.
C32_NoReclaimInFlight ==
    [][(pc' = pc /\ phase' = phase /\ variant = "http")
        => \A c \in Callers :
             InFlight(c) => /\ procs'[held[c]].state # "terminated"
                            /\ active'[procs[held[c]].server_id]
                                 = active[procs[held[c]].server_id]]_vars

\* A call is in flight on a running process whose entry has been idle beyond
\* its timeout, with the idle monitor scheduled.
C32_Witness ==
    \E c \in Callers :
        /\ InFlight(c)
        /\ variant = "http"
        /\ monitor = "scheduled"
        /\ held[c] \in IdlePids
        /\ procs[held[c]].state = "running"

\* C33: no leak in the pool of gateway.py.  Every subprocess that was
\* launched and has not been terminated by the gateway is the process its
\* identifier is mapped to in active_processes.
C33_NoLeak ==
    variant = "http" =>
        \A p \in Pids :
            procs[p].state # "terminated" => active[procs[p].server_id] = p

\* An identifier was stopped and launched again: its first process is
\* terminated, its second one is the pool entry, and no handler is running.
C33_Witness ==
    /\ variant = "http"
    /\ Len(procs) = 2
    /\ procs[1].server_id = procs[2].server_id
    /\ procs[1].state = "terminated"
    /\ procs[2].state = "running"
    /\ active[procs[2].server_id] = 2
    /\ \A c \in Callers : pc[c] = "idle"

\* C34 helpers: the handler of c ends in this step on a transport failure,
\* on the read (end of file, empty or undecodable line) or on the write (the
\* process of the entry is gone).
StdioReadFailure(c) ==
    /\ pc[c] = "call_read"
    /\ pc'[c] = "idle"
    /\ last'.read \in {Eof, NotJson}
StdioWriteFailed(c) ==
    /\ pc[c] = "pending"
    /\ pc'[c] = "idle"
    /\ req[c].op = "execute_tool"
    /\ ~InvalidInput(req[c])
    /\ active[req[c].server_id] # 0
    /\ procs[active[req[c].server_id]].state # "running"

\* C34: in mcp-stdio-gateway.py every transport failure of send_message
\* becomes an error object with code -32603 that carries the id of the
\* request; execute_tool raises it as a tool execution error, and the pool
\* entry and its process are left as they were.
C34_StdioTransportErrors ==
    /\ \A line \in {Eof, NotJson} :
         /\ StdioResponse(line).kind = "error"
         /\ StdioResponse(line).own
         /\ StdioResponse(line).error.code = InternalErrorCode
    /\ [][\A c \in Callers :
            (variant = "stdio" /\ (StdioReadFailure(c) \/ StdioWriteFailed(c)))
            => /\ last'.outcome.status = "raise"
               /\ last'.outcome.type = "Exception"
               /\ last'.outcome.text = "Tool execution error"
               /\ last'.outcome.error.code = InternalErrorCode
               /\ active' = active
               /\ \A p \in Pids : procs'[p].state = procs[p].state]_vars

\* The STDIO gateway read a line that is no JSON, the call failed with the
\* internal error, and the entry is still in the pool.
C34_Witness ==
    /\ variant = "stdio"
    /\ last.op = "execute_tool"
    /\ last.read = NotJson
    /\ last.outcome.error.code = InternalErrorCode
    /\ active[last.server_id] # 0

\* C35: run_test_suite never leaves a server process running.  When it has
\* returned, the process its setup started is not running.
C35_SuiteStopsServer ==
    suite_pc = "done" => tester_process # "alive"

\* C36: run_test_case always terminates.  A test case that waits for a
\* response line is eventually recorded, whatever the server does.
C36_CaseTerminates ==
    (suite_pc = "case_wait") ~> (suite_pc # "case_wait")

\* C37: the two risk classifications agree.  For every candidate the score
\* of its warnings is put in the same class by show_risk_summary and by
\* get_security_summary, so the counters the two report are equal; and the
\* candidates request_approval asks a high-risk confirmation for are exactly
\* those counted as high risk.
C37_ClassificationsAgree ==
    /\ \A i \in 1..Len(candidates) :
         /\ DisplayedLevel(RiskScore(candidates[i])) = SummaryLevel(RiskScore(candidates[i]))
         /\ RiskScore(candidates[i]) \in 0..RiskScoreCap
    /\ Len(HighRiskCandidates(candidates)) = SecuritySummary(candidates).high_risk_functions
    /\ risk_summary # NoSummary =>
         /\ risk_summary.safe = SecuritySummary(candidates).safe_functions
         /\ risk_summary.medium = SecuritySummary(candidates).medium_risk_functions
         /\ risk_summary.high = SecuritySummary(candidates).high_risk_functions
         /\ risk_summary.high = Len(HighRiskCandidates(candidates))
         /\ apc = "confirm" => risk_summary.high > 0

\* The summary was shown for a medium-risk candidate and one whose score
\* reached the cap, and the confirmation for the latter is being asked.
C37_Witness ==
    /\ apc = "confirm"
    /\ risk_summary # NoSummary
    /\ risk_summary.medium = 1
    /\ risk_summary.high = 1
    /\ \E i \in 1..Len(candidates) :
         HighRiskWeight * candidates[i].high + MediumRiskWeight * candidates[i].medium
            > RiskScoreCap

====
